---- MODULE Spec2Model ----
(***************************************************************************)
(* A model of scripts/ensure-integrity.js: the package integrity pass of   *)
(* the repository.  One run loads the manifests named by lerna.json,       *)
(* hoists devDependencies to the root manifest (ensureTop), validates each *)
(* package (ensurePackage, with ensureAllPackages for the all-packages     *)
(* meta package) and reports.                                              *)
(*                                                                         *)
(* Strings that the code takes apart or searches (names, import            *)
(* specifiers, version specs, the text of index.ts) are sequences of       *)
(* one-character strings, so that split, indexOf, join and + are computed  *)
(* as the code computes them.  Package and dependency names are shortened: *)
(*   "@j/all" for "@jupyterlab/all-packages", "@j/b" for                   *)
(*   "@jupyterlab/buildutils", "@j/a" for "@jupyterlab/apputils", "@j/ae"  *)
(*   for "@jupyterlab/apputils-extension", "p" for "path", "e" for         *)
(*   "es6-promise".                                                        *)
(***************************************************************************)
EXTENDS Integers, Sequences, FiniteSets, TLC

VARIABLES
  lerna,      \* lerna.json: the sequence of package location patterns
  lookup,     \* what ./get-dependency answers for each name in this workspace
  src,        \* per location: whether src/ holds TypeScript files, and their imports
  disk,       \* the files the pass reads and writes
  pc,         \* where the process is: load, top, packages, done, aborted, crashed
  run,        \* the number of the current run of the script
  pkgData,    \* name -> manifest object (line 29)
  pkgOrder,   \* the keys of pkgData in insertion order (for-in order, line 278)
  pkgPaths,   \* name -> location (line 30)
  pkgNames,   \* location -> name (line 31)
  seenDeps,   \* the cache of resolved names (line 34)
  todo,       \* the names the loop of line 278 still has to visit
  messages,   \* the findings map of ensureIntegrity (line 247)
  output,     \* what the run printed: none, report, verified
  calls,      \* name -> number of getDependency calls made in this run
  wrote,      \* the files written in this run
  visited,    \* per package validated in this run: what ensurePackage saw and did
  start,      \* the files as they were when this run started
  past        \* one summary per earlier run

vars == <<lerna, lookup, src, disk, pc, run, pkgData, pkgOrder, pkgPaths,
          pkgNames, seenDeps, todo, messages, output, calls, wrote, visited,
          start, past>>

----------------------------------------------------------------------------
(* Strings *)

\* The UTF-16 code unit of each character the model's strings are made of.
Code(c) ==
  CASE c = "\n" -> 10 [] c = " " -> 32 [] c = "\"" -> 34 [] c = "-" -> 45
    [] c = "." -> 46 [] c = "/" -> 47 [] c = "1" -> 49 [] c = "2" -> 50
    [] c = ";" -> 59 [] c = "@" -> 64 [] c = "^" -> 94 [] c = "a" -> 97
    [] c = "b" -> 98 [] c = "d" -> 100 [] c = "e" -> 101 [] c = "f" -> 102
    [] c = "i" -> 105 [] c = "j" -> 106 [] c = "l" -> 108 [] c = "m" -> 109
    [] c = "n" -> 110 [] c = "o" -> 111 [] c = "p" -> 112 [] c = "r" -> 114
    [] c = "s" -> 115 [] c = "t" -> 116 [] c = "u" -> 117 [] c = "x" -> 120
    [] OTHER -> 0

\* JavaScript's < on strings: by code unit, a proper prefix first.
RECURSIVE StrLess(_, _)
StrLess(s, t) ==
  IF t = <<>> THEN FALSE
  ELSE IF s = <<>> THEN TRUE
  ELSE IF Code(Head(s)) # Code(Head(t)) THEN Code(Head(s)) < Code(Head(t))
  ELSE StrLess(Tail(s), Tail(t))

\* Array.prototype.sort() of a set of distinct strings.
RECURSIVE SortStrs(_)
SortStrs(S) ==
  IF S = {} THEN <<>>
  ELSE LET m == CHOOSE a \in S : \A b \in S \ {a} : StrLess(a, b)
       IN  <<m>> \o SortStrs(S \ {m})

\* String.prototype.indexOf: the first 0-based position of sub in s, or -1.
IndexOf(s, sub) ==
  LET hits == {i \in 0..(Len(s) - Len(sub)) :
                 SubSeq(s, i + 1, i + Len(sub)) = sub}
  IN  IF hits = {} THEN -1 ELSE CHOOSE i \in hits : \A k \in hits : i <= k

\* Array.prototype.indexOf on an array of strings.
ArrayIndexOf(arr, x) ==
  LET hits == {i \in 1..Len(arr) : arr[i] = x}
  IN  IF hits = {} THEN -1 ELSE (CHOOSE i \in hits : \A k \in hits : i <= k) - 1

\* String.prototype.split(sep) for a one-character separator.
RECURSIVE Split(_, _)
Split(s, sep) ==
  LET i == IndexOf(s, <<sep>>)
  IN  IF i = -1 THEN <<s>>
      ELSE <<SubSeq(s, 1, i)>> \o Split(SubSeq(s, i + 2, Len(s)), sep)

\* Array.prototype.join(sep).
RECURSIVE Join(_, _)
Join(arr, sep) ==
  IF arr = <<>> THEN <<>>
  ELSE IF Len(arr) = 1 THEN arr[1]
  ELSE arr[1] \o sep \o Join(Tail(arr), sep)

\* Array.prototype.slice(0, n).
Slice0(arr, n) == SubSeq(arr, 1, IF Len(arr) < n THEN Len(arr) ELSE n)

\* The number of elements of arr equal to x.
Count(arr, x) == Cardinality({i \in 1..Len(arr) : arr[i] = x})

\* The elements of a sequence.
Range(arr) == {arr[i] : i \in 1..Len(arr)}

\* obj[k] of a JavaScript object: the value, or undefined.
Undefined == <<"u", "n", "d", "e", "f", "i", "n", "e", "d">>
Get(obj, k) == IF k \in DOMAIN obj THEN obj[k] ELSE Undefined

\* Object.keys of a dependency map.  The manifests list their dependencies
\* in sorted order (sort-package-json), and the keys the code adds are never
\* reported by the loops that iterate the keys.
Keys(obj) == SortStrs(DOMAIN obj)

----------------------------------------------------------------------------
(* Names, tables and the file system *)

ALL  == <<"@", "j", "/", "a", "l", "l">>   \* '@jupyterlab/all-packages'
BU   == <<"@", "j", "/", "b">>             \* '@jupyterlab/buildutils'
AP   == <<"@", "j", "/", "a">>             \* '@jupyterlab/apputils'
AE   == <<"@", "j", "/", "a", "e">>        \* '@jupyterlab/apputils-extension'
EX   == <<"e", "x">>                       \* a package outside packages/
X    == <<"x">>                            \* a third-party dependency
PATH == <<"p">>                            \* 'path'
ES6  == <<"e">>                            \* 'es6-promise'
DEV  == <<"d">>                            \* a development tool
Dot    == <<".">>
DotDot == <<".", ".">>

\* Data to ignore (lines 17-27), for the packages of the model.
MISSING == (BU :> <<PATH>>)
UNUSED  == (AE :> <<ES6>>)

\* The locations of the working tree.
allPackagesPath == "packages/all-packages"
Locs == {allPackagesPath, "packages/p1", "packages/p2", "examples/e"}

\* glob.sync of a location pattern: the matching locations, sorted.
Glob(spec) ==
  CASE spec = "packages/*" -> <<allPackagesPath, "packages/p1", "packages/p2">>
    [] spec = "examples/*" -> <<"examples/e">>
    [] OTHER -> <<>>

\* localPackages (line 33).
localPackages == Glob("packages/*")

\* The names of the files the pass may write.
RootFile  == "package.json"
IndexFile == "packages/all-packages/src/index.ts"

\* What disk.index holds when there is no index.ts: no text at all.
NoIndex == <<"ENOENT">>

\* A manifest that cannot be read.
NoData == [name |-> <<>>, version |-> <<>>,
           dependencies |-> <<>>, devDependencies |-> <<>>]
NoFile == [exists |-> FALSE, data |-> NoData, canonical |-> FALSE]

\* JSON.stringify(sortPackageJson(data), null, 2) + '\n': the canonical text
\* of a manifest.  A file on disk holds a manifest's data in the canonical
\* text or in some other text.
Serialize(data) == [exists |-> TRUE, data |-> data, canonical |-> TRUE]

\* 'import "' + name + '";\n' (line 165).
ImportLine(name) ==
  <<"i", "m", "p", "o", "r", "t", " ", "\"">> \o name \o <<"\"", ";", "\n">>

\* The module specifier of a line that is an import declaration, as a set.
LineImport(line) ==
  LET n == Len(line)
  IN  IF n >= 10 /\ SubSeq(line, 1, 8) = <<"i", "m", "p", "o", "r", "t", " ", "\"">>
           /\ SubSeq(line, n - 1, n) = <<"\"", ";">>
      THEN {SubSeq(line, 9, n - 2)}
      ELSE {}

\* getImports of a source text: the module specifier of every import
\* declaration.  The TypeScript parser is outside the repository; a source
\* text of the model has one statement per line.
getImports(text) ==
  LET ls == Split(text, "\n")
  IN  UNION {LineImport(ls[i]) : i \in 1..Len(ls)}

----------------------------------------------------------------------------
(* The Dependency Version Resolver *)

\* What the lookup answers for a name it cannot resolve: it throws.
Unresolved == <<>>

\* require('./get-dependency')(name): a function of the name alone.
getDependency(name) == IF name \in DOMAIN lookup THEN lookup[name] ELSE Unresolved

\* A resolver state: the cache, the calls made, and whether a lookup threw.

\* A resolver without the guard: it asks the lookup every time.
ResolveUncached(st, name) ==
  IF st.err THEN st
  ELSE LET n == IF name \in DOMAIN st.calls THEN st.calls[name] ELSE 0
           c == (name :> n + 1) @@ st.calls
           v == getDependency(name)
       IN  IF v = Unresolved
           THEN [st EXCEPT !.calls = c, !.err = TRUE]
           ELSE [st EXCEPT !.calls = c, !.seen = (name :> v) @@ st.seen]

\* A resolver whose lookup answers undefined for a name it cannot resolve,
\* which is cached like any answer.
ResolveUndefined(st, name) ==
  IF name \in DOMAIN st.seen THEN st
  ELSE [st EXCEPT
          !.calls = (name :> (IF name \in DOMAIN st.calls THEN st.calls[name]
                              ELSE 0) + 1) @@ st.calls,
          !.seen = (name :> getDependency(name)) @@ st.seen]

\* if (!(name in seenDeps)) { seenDeps[name] = getDependency(name); }
Resolve(st, name) ==
  IF st.err THEN st
  ELSE IF name \in DOMAIN st.seen THEN st
  ELSE LET n == IF name \in DOMAIN st.calls THEN st.calls[name] ELSE 0
           c == (name :> n + 1) @@ st.calls
           v == getDependency(name)
       IN  IF v = Unresolved
           THEN [st EXCEPT !.calls = c, !.err = TRUE]
           ELSE [st EXCEPT !.calls = c, !.seen = (name :> v) @@ st.seen]

\* The forEach of lines 48-53 and 56-61, over the keys of one map.
RECURSIVE ResolveAll(_, _)
ResolveAll(keys, st) ==
  IF keys = <<>> THEN st ELSE ResolveAll(Tail(keys), Resolve(st, Head(keys)))

\* The map with every value replaced by the cached one.
Normalized(map, seen) == [n \in DOMAIN map |-> seen[n]]

----------------------------------------------------------------------------
(* ensurePackageData *)

\* A comparison of the data alone, whatever text the file holds it in.
ChangedData(data, orig) == data # orig.data

\* Whether ensurePackageData(data, path) writes: text !== orig (line 214).
Changed(data, orig) == Serialize(data) # orig

\* !obj[k] is false: the key is there with a non-empty string.
Truthy(obj, k) == k \in DOMAIN obj /\ obj[k] # <<>>

----------------------------------------------------------------------------
(* ensureAllPackages *)

\* One turn of the forEach of lines 147-170.  acc holds allPackageData's
\* dependencies, the lines of the new index, the messages, and whether the
\* turn threw a TypeError (data.version of an undefined data).
SyncOne(pkgPath, acc, index, pd, pn) ==
  IF pkgPath = allPackagesPath THEN acc
  ELSE LET name   == Get(pn, pkgPath)
           absent == ~Truthy(acc.deps, name)
           known  == IndexOf(index, name) # -1
       IN  IF absent /\ name \notin DOMAIN pd
           THEN [acc EXCEPT !.crash = TRUE]
           ELSE [deps  |-> IF absent
                           THEN (name :> (<<"^">> \o pd[name].version)) @@ acc.deps
                           ELSE acc.deps,
                 lines |-> Append(acc.lines, ImportLine(name)),
                 msgs  |-> IF absent \/ ~known
                           THEN Append(acc.msgs, <<"Updated: ", name>>)
                           ELSE acc.msgs,
                 crash |-> FALSE]

RECURSIVE SyncLoop(_, _, _, _, _)
SyncLoop(paths, acc, index, pd, pn) ==
  IF paths = <<>> \/ acc.crash THEN acc
  ELSE SyncLoop(Tail(paths), SyncOne(Head(paths), acc, index, pd, pn), index, pd, pn)

\* Lines 172-182: the two files are written when their text changed.
SyncWrite(data2, msgs, newIndex, dk, wr) ==
  [crash |-> FALSE,
   data  |-> data2,
   disk  |-> [dk EXCEPT
                !.pkg[allPackagesPath] =
                   IF Changed(data2, dk.pkg[allPackagesPath])
                   THEN Serialize(data2) ELSE @,
                !.index = IF newIndex # dk.index THEN newIndex ELSE @],
   wrote |-> wr \cup (IF Changed(data2, dk.pkg[allPackagesPath])
                      THEN {allPackagesPath} ELSE {})
                \cup (IF newIndex # dk.index THEN {IndexFile} ELSE {}),
   msgs  |-> msgs
             \o (IF Changed(data2, dk.pkg[allPackagesPath])
                 THEN <<(<<"Package data changed">>)>> ELSE <<>>)
             \o (IF newIndex # dk.index THEN <<(<<"Index changed">>)>> ELSE <<>>)]

SyncEnd(data, acc, dk, wr) ==
  IF acc.crash
  THEN [crash |-> TRUE, data |-> data, disk |-> dk, wrote |-> wr, msgs |-> <<>>]
  ELSE SyncWrite([data EXCEPT !.dependencies = acc.deps], acc.msgs,
                 Join(acc.lines, <<"\n">>), dk, wr)

\* ensureAllPackages(), on allPackageData = data (require answers the object
\* that ensureIntegrity loaded from the same file).  fs.readFileSync of line
\* 143 throws when there is no index.ts.
ensureAllPackages(data, pd, pn, dk, wr) ==
  IF dk.index = NoIndex
  THEN [crash |-> TRUE, data |-> data, disk |-> dk, wrote |-> wr, msgs |-> <<>>]
  ELSE SyncEnd(data,
               SyncLoop(localPackages,
                        [deps |-> data.dependencies,
                         lines |-> Slice0(Split(dk.index, "\n"), 3),
                         msgs |-> <<>>, crash |-> FALSE],
                        dk.index, pd, pn),
               dk, wr)

----------------------------------------------------------------------------
(* ensurePackage *)

\* The first part of an import specifier, scoped or not.
IdentityFirstPart(name) == Split(name, "/")[1]

\* The package identity of an import specifier (lines 88-94).
Identity(name) ==
  LET parts == Split(name, "/")
  IN  IF IndexOf(name, <<"@">>) = 0
      THEN parts[1] \o <<"/">> \o (IF Len(parts) >= 2 THEN parts[2] ELSE Undefined)
      ELSE parts[1]

\* names of line 87-94: the distinct specifiers, sorted, each mapped to its
\* identity (two specifiers of one package give the identity twice).
ImportNames(imports) ==
  LET sorted == SortStrs(imports)
  IN  [i \in 1..Len(sorted) |-> Identity(sorted[i])]

\* Whether the table lists name for the package (lines 98 and 115).
Listed(table, pkgName, name) ==
  pkgName \in DOMAIN table /\ ArrayIndexOf(table[pkgName], name) # -1

\* A turn of lines 97-111 that reports the name and leaves deps alone.
MissingStepNoAdd(name, acc, pkgName) ==
  IF Listed(MISSING, pkgName, name) THEN acc
  ELSE IF name = Dot \/ name = DotDot THEN acc
  ELSE IF ~Truthy(acc.deps, name)
    THEN [deps |-> acc.deps,
          msgs |-> Append(acc.msgs, <<"Missing dependency: ", name>>),
          st   |-> Resolve(acc.st, name)]
  ELSE acc

\* One turn of the forEach of lines 97-111.  acc holds deps, the messages
\* and the resolver state.
MissingStep(name, acc, pkgName) ==
  IF Listed(MISSING, pkgName, name) THEN acc
  ELSE IF name = Dot \/ name = DotDot THEN acc
  ELSE IF ~Truthy(acc.deps, name)
    THEN [deps |-> IF Resolve(acc.st, name).err THEN acc.deps
                   ELSE (name :> Resolve(acc.st, name).seen[name]) @@ acc.deps,
          msgs |-> Append(acc.msgs, <<"Missing dependency: ", name>>),
          st   |-> Resolve(acc.st, name)]
  ELSE acc

\* The forEach of lines 97-111; a throw of getDependency ends it.
RECURSIVE MissingLoop(_, _, _)
MissingLoop(names, acc, pkgName) ==
  IF names = <<>> \/ acc.st.err THEN acc
  ELSE MissingLoop(Tail(names), MissingStep(Head(names), acc, pkgName), pkgName)

\* A turn of lines 114-122 that does not look at the UNUSED table.
UnusedStepNoTable(name, acc, names, pkgName) ==
  IF ArrayIndexOf(names, name) = -1
  THEN [deps |-> [n \in (DOMAIN acc.deps) \ {name} |-> acc.deps[n]],
        msgs |-> Append(acc.msgs, <<"Unused dependency: ", name>>)]
  ELSE acc

\* A turn of lines 114-122 that also keeps the keys of the MISSING table.
UnusedStepBothTables(name, acc, names, pkgName) ==
  IF Listed(UNUSED, pkgName, name) \/ Listed(MISSING, pkgName, name) THEN acc
  ELSE IF ArrayIndexOf(names, name) = -1
    THEN [deps |-> [n \in (DOMAIN acc.deps) \ {name} |-> acc.deps[n]],
          msgs |-> Append(acc.msgs, <<"Unused dependency: ", name>>)]
  ELSE acc

\* One turn of the forEach of lines 114-122.
UnusedStep(name, acc, names, pkgName) ==
  IF Listed(UNUSED, pkgName, name) THEN acc
  ELSE IF ArrayIndexOf(names, name) = -1
    THEN [deps |-> [n \in (DOMAIN acc.deps) \ {name} |-> acc.deps[n]],
          msgs |-> Append(acc.msgs, <<"Unused dependency: ", name>>)]
  ELSE acc

\* The forEach of lines 114-122, over the keys deps has when it starts.
RECURSIVE UnusedLoop(_, _, _, _)
UnusedLoop(keys, acc, names, pkgName) ==
  IF keys = <<>> THEN acc
  ELSE UnusedLoop(Tail(keys), UnusedStep(Head(keys), acc, names, pkgName),
                  names, pkgName)

\* ensurePackageData(data, path.join(dname, 'package.json')) and the message
\* of lines 72-74 and 124-126.
Persist(data, dname, dk, wr, msgs) ==
  LET ch == Changed(data, dk.pkg[dname])
  IN  [disk  |-> IF ch THEN [dk EXCEPT !.pkg[dname] = Serialize(data)] ELSE dk,
       wrote |-> IF ch THEN wr \cup {dname} ELSE wr,
       msgs  |-> IF ch THEN Append(msgs, <<"Package data changed">>) ELSE msgs]

\* What a call that threw leaves behind.
Thrown(status, st, dk, wr) ==
  [status |-> status, data |-> NoData, seen |-> st.seen, calls |-> st.calls,
   disk |-> dk, wrote |-> wr, msgs |-> <<>>,
   obs |-> [files |-> FALSE, synced |-> FALSE, names |-> <<>>,
            atCheck |-> <<>>, atUnused |-> <<>>]]

\* What a call that returned leaves behind; saved is what Persist did.
Returned(data, st, saved, obs) ==
  [status |-> "ok", data |-> data, seen |-> st.seen, calls |-> st.calls,
   disk |-> saved.disk, wrote |-> saved.wrote, msgs |-> saved.msgs, obs |-> obs]

\* Lines 124-127, after the loop of lines 114-122 left unus.
PkgEnd(pkgName, dname, sync, names, miss, unus) ==
  Returned([sync.data EXCEPT !.dependencies = unus.deps], miss.st,
           Persist([sync.data EXCEPT !.dependencies = unus.deps], dname,
                   sync.disk, sync.wrote, unus.msgs),
           [files |-> TRUE, synced |-> pkgName = ALL, names |-> names,
            atCheck |-> sync.data.dependencies, atUnused |-> miss.deps])

\* Lines 113-122, after the loop of lines 97-111 left miss.
PkgUnused(pkgName, dname, sync, names, miss) ==
  IF miss.st.err THEN Thrown("threw", miss.st, sync.disk, sync.wrote)
  ELSE PkgEnd(pkgName, dname, sync, names, miss,
              UnusedLoop(Keys(miss.deps), [deps |-> miss.deps, msgs |-> miss.msgs],
                         names, pkgName))

\* Lines 96-111 with a name that devDependencies declares taken as declared.
PkgMissingDev(pkgName, dname, st, sync, names) ==
  PkgUnused(pkgName, dname, sync, names,
            MissingLoop(SelectSeq(names,
                                  LAMBDA n : n \notin DOMAIN sync.data.devDependencies),
                        [deps |-> sync.data.dependencies, msgs |-> sync.msgs,
                         st |-> st],
                        pkgName))

\* Lines 96-111, on the names of lines 87-94.
PkgMissing(pkgName, dname, st, sync, names) ==
  PkgUnused(pkgName, dname, sync, names,
            MissingLoop(names,
                        [deps |-> sync.data.dependencies, msgs |-> sync.msgs,
                         st |-> st],
                        pkgName))

\* Lines 67-94 with the imports of the all-packages package collected from
\* the index.ts the run started with.
PkgImportsStale(pkgName, dname, st, sync) ==
  IF sync.crash THEN Thrown("crashed", st, sync.disk, sync.wrote)
  ELSE IF pkgName # ALL /\ ~src[dname].files
    THEN Returned(sync.data, st,
                  Persist(sync.data, dname, sync.disk, sync.wrote, sync.msgs),
                  [files |-> FALSE, synced |-> FALSE, names |-> <<>>,
                   atCheck |-> sync.data.dependencies,
                   atUnused |-> sync.data.dependencies])
  ELSE PkgMissing(pkgName, dname, st, sync,
                  ImportNames(IF pkgName = ALL THEN getImports(start.index)
                              ELSE src[dname].imports))

\* Lines 67-94, after ensureAllPackages (or nothing) left sync.  The source
\* files of the all-packages package are its index.ts, read after
\* ensureAllPackages wrote it.
PkgImports(pkgName, dname, st, sync) ==
  IF sync.crash THEN Thrown("crashed", st, sync.disk, sync.wrote)
  ELSE IF pkgName # ALL /\ ~src[dname].files
    THEN Returned(sync.data, st,
                  Persist(sync.data, dname, sync.disk, sync.wrote, sync.msgs),
                  [files |-> FALSE, synced |-> FALSE, names |-> <<>>,
                   atCheck |-> sync.data.dependencies,
                   atUnused |-> sync.data.dependencies])
  ELSE PkgMissing(pkgName, dname, st, sync,
                  ImportNames(IF pkgName = ALL THEN getImports(sync.disk.index)
                              ELSE src[dname].imports))

\* Lines 63-65, on the normalized data.
PkgSync(pkgName, dname, data2, st, pd, pn, dk, wr) ==
  PkgImports(pkgName, dname, st,
             IF pkgName = ALL
             THEN ensureAllPackages(data2, pd, pn, dk, wr)
             ELSE [crash |-> FALSE, data |-> data2, disk |-> dk, wrote |-> wr,
                   msgs |-> <<>>])

\* Lines 52 and 60, after the two loops left the resolver in st.
PkgNormalize(pkgName, dname, data, st, pd, pn, dk, wr) ==
  IF st.err THEN Thrown("threw", st, dk, wr)
  ELSE PkgSync(pkgName, dname,
               [data EXCEPT
                  !.dependencies = Normalized(data.dependencies, st.seen),
                  !.devDependencies = Normalized(data.devDependencies, st.seen)],
               st, pd, pn, dk, wr)

\* ensurePackage(pkgName).  status is "ok" when the call returned, "threw"
\* when getDependency threw, "crashed" when ensureAllPackages threw.
ensurePackage(pkgName, pd, pp, pn, seen, cl, dk, wr) ==
  PkgNormalize(pkgName, pp[pkgName], pd[pkgName],
               ResolveAll(Keys(pd[pkgName].devDependencies),
                          ResolveAll(Keys(pd[pkgName].dependencies),
                                     [seen |-> seen, calls |-> cl, err |-> FALSE])),
               pd, pn, dk, wr)

----------------------------------------------------------------------------
(* ensureTop *)

\* The forEach of lines 229-236: every devDependency of every location of
\* localPackages is copied into localData.  data.devDependencies of an
\* undefined data throws a TypeError.
RECURSIVE HoistLoop(_, _, _, _)
HoistLoop(paths, acc, pd, pn) ==
  IF paths = <<>> \/ acc.crash THEN acc
  ELSE LET name == Get(pn, Head(paths))
           next ==
             IF name \notin DOMAIN pd THEN [acc EXCEPT !.crash = TRUE]
             ELSE [acc EXCEPT !.devDeps = pd[name].devDependencies @@ acc.devDeps]
       IN  HoistLoop(Tail(paths), next, pd, pn)

\* Lines 237-239, on the data the loop left.
TopEnd(acc, data2, dk, wr) ==
  IF acc.crash \/ ~Changed(data2, dk.root)
  THEN [crash |-> acc.crash, disk |-> dk, wrote |-> wr, updated |-> FALSE]
  ELSE [crash |-> FALSE, disk |-> [dk EXCEPT !.root = Serialize(data2)],
        wrote |-> wr \cup {RootFile}, updated |-> TRUE]

TopHoist(acc, dk, wr) ==
  TopEnd(acc, [dk.root.data EXCEPT !.devDependencies = acc.devDeps], dk, wr)

\* ensureTop(): updated is TRUE when it returns 'updated'.
ensureTop(pd, pn, dk, wr) ==
  TopHoist(HoistLoop(localPackages,
                     [devDeps |-> dk.root.data.devDependencies, crash |-> FALSE],
                     pd, pn),
           dk, wr)

----------------------------------------------------------------------------
(* ensureIntegrity *)

\* paths of lines 251-254.
RECURSIVE LernaPaths(_)
LernaPaths(specs) ==
  IF specs = <<>> THEN <<>> ELSE Glob(Head(specs)) \o LernaPaths(Tail(specs))

\* The forEach of lines 257-269: a location without a readable manifest is
\* passed over.
RECURSIVE LoadLoop(_, _, _)
LoadLoop(paths, acc, dk) ==
  IF paths = <<>> THEN acc
  ELSE LET pkgPath == Head(paths)
           file    == dk.pkg[pkgPath]
           name    == file.data.name
           next ==
             IF ~file.exists THEN acc
             ELSE [data  |-> (name :> file.data) @@ acc.data,
                   order |-> IF name \in DOMAIN acc.data THEN acc.order
                             ELSE Append(acc.order, name),
                   paths |-> (name :> pkgPath) @@ acc.paths,
                   names |-> (pkgPath :> name) @@ acc.names]
       IN  LoadLoop(Tail(paths), next, dk)

\* The key of the root manifest's entry in messages (line 274).
TOP == <<"t", "o", "p">>

MaxRuns == 2

\* Lines 250-269.
Loaded(acc) ==
  /\ pkgData' = acc.data
  /\ pkgOrder' = acc.order
  /\ pkgPaths' = acc.paths
  /\ pkgNames' = acc.names

Load ==
  /\ pc = "load"
  /\ Loaded(LoadLoop(LernaPaths(lerna),
                     [data |-> <<>>, order |-> <<>>, paths |-> <<>>,
                      names |-> <<>>],
                     disk))
  /\ pc' = "top"
  /\ UNCHANGED <<lerna, lookup, src, disk, run, seenDeps, todo, messages, output,
                 calls, wrote, visited, start, past>>

\* Lines 271-275.
Topped(r) ==
  /\ disk' = r.disk
  /\ wrote' = r.wrote
  /\ pc' = IF r.crash THEN "crashed" ELSE "packages"
  /\ messages' = IF r.updated THEN (TOP :> <<"updated">>) ELSE <<>>
  /\ todo' = IF r.crash THEN <<>> ELSE pkgOrder

Top ==
  /\ pc = "top"
  /\ Topped(ensureTop(pkgData, pkgNames, disk, wrote))
  /\ UNCHANGED <<lerna, lookup, src, run, pkgData, pkgOrder, pkgPaths, pkgNames,
                 seenDeps, output, calls, visited, start, past>>

\* One turn of the loop of lines 278-283.
Validated(name, r) ==
  /\ disk' = r.disk
  /\ wrote' = r.wrote
  /\ seenDeps' = r.seen
  /\ calls' = r.calls
  /\ pc' = IF r.status = "ok" THEN "packages"
           ELSE IF r.status = "threw" THEN "aborted" ELSE "crashed"
  /\ pkgData' = IF r.status = "ok" THEN [pkgData EXCEPT ![name] = r.data]
                ELSE pkgData
  /\ messages' = IF r.status = "ok" /\ Len(r.msgs) > 0
                 THEN (name :> r.msgs) @@ messages
                 ELSE messages
  /\ visited' = IF r.status = "ok"
                THEN (name :> [msgs |-> r.msgs, obs |-> r.obs]) @@ visited
                ELSE visited
  /\ todo' = IF r.status = "ok" THEN Tail(todo) ELSE todo

Validate ==
  /\ pc = "packages"
  /\ todo # <<>>
  /\ Validated(Head(todo),
               ensurePackage(Head(todo), pkgData, pkgPaths, pkgNames, seenDeps,
                             calls, disk, wrote))
  /\ UNCHANGED <<lerna, lookup, src, run, pkgOrder, pkgPaths, pkgNames, output,
                 start, past>>

\* Lines 285-297.
Report ==
  /\ pc = "packages"
  /\ todo = <<>>
  /\ output' = IF DOMAIN messages # {} THEN "report" ELSE "verified"
  /\ pc' = "done"
  /\ UNCHANGED <<lerna, lookup, src, disk, run, pkgData, pkgOrder, pkgPaths,
                 pkgNames, seenDeps, todo, messages, calls, wrote, visited, start,
                 past>>

\* The script is run again, on the files the last run left.
Rerun ==
  /\ pc \in {"done", "aborted", "crashed"}
  /\ run < MaxRuns
  /\ run' = run + 1
  /\ pc' = "load"
  /\ past' = Append(past, [pc |-> pc, messages |-> messages, output |-> output,
                           wrote |-> wrote, visited |-> DOMAIN visited])
  /\ start' = disk
  /\ pkgData' = <<>> /\ pkgOrder' = <<>> /\ pkgPaths' = <<>> /\ pkgNames' = <<>>
  /\ seenDeps' = <<>> /\ todo' = <<>> /\ messages' = <<>> /\ output' = "none"
  /\ calls' = <<>> /\ wrote' = {} /\ visited' = <<>>
  /\ UNCHANGED <<lerna, lookup, src, disk>>

Next == Load \/ Top \/ Validate \/ Report \/ Rerun

----------------------------------------------------------------------------
(* The working trees the pass starts from *)

V1 == <<"^", "1">>
V2 == <<"^", "2">>
Ver1 == <<"1">>

Manifest(name, version, deps, devDeps) ==
  [name |-> name, version |-> version, dependencies |-> deps,
   devDependencies |-> devDeps]
File(data, canonical) == [exists |-> TRUE, data |-> data, canonical |-> canonical]
Pkg(file, files, imports) ==
  [file |-> file, src |-> [files |-> files, imports |-> imports]]

\* The index that ensureAllPackages writes for a header and a list of names.
GenIndex(header, names) ==
  Join(header \o [i \in 1..Len(names) |-> ImportLine(names[i])], <<"\n">>)

Comment == <<"/", "/">>
Header  == <<Comment, Comment, <<>>>>

\* Each part of the working tree has a reference value (the first) and
\* other values.  The reference tree is one that the pass verifies.
LernaOpts ==
  << <<"packages/*", "examples/*">>,
     <<"packages/*">>,
     <<"examples/*", "packages/*">>,
     <<"examples/*">> >>

DepNames == {ALL, BU, AP, AE, EX, X, PATH, ES6, DEV}
BaseLookup == [n \in DepNames |-> V1]
LookupOpts ==
  << BaseLookup,
     [BaseLookup EXCEPT ![DEV] = V2],
     [BaseLookup EXCEPT ![AE] = V2],
     [BaseLookup EXCEPT ![X] = V2],
     [BaseLookup EXCEPT ![X] = Unresolved],
     [BaseLookup EXCEPT ![DEV] = Unresolved],
     [BaseLookup EXCEPT ![X] = Unresolved, ![AE] = V2] >>

P1Base == Manifest(BU, Ver1, (X :> V1), (DEV :> V1))
P1Opts ==
  << Pkg(File(P1Base, TRUE), TRUE, {X, PATH}),
     Pkg(File([P1Base EXCEPT !.dependencies = <<>>], TRUE), TRUE,
         {X, <<"x", "/", "s">>, <<"x", "/", "s", "/", "t">>, PATH,
          <<".", "/", "u">>}),
     Pkg(File([P1Base EXCEPT !.dependencies = (X :> V1) @@ (ES6 :> V1)], TRUE),
         TRUE, {X, PATH}),
     Pkg(File([P1Base EXCEPT !.dependencies = (X :> V2) @@ (ES6 :> V2)], TRUE),
         FALSE, {}),
     Pkg(File(P1Base, FALSE), TRUE, {X, PATH}),
     Pkg(File([P1Base EXCEPT !.name = AP], TRUE), TRUE, {X, PATH}),
     Pkg(File([P1Base EXCEPT !.dependencies = (X :> V1) @@ (PATH :> V1)], TRUE),
         TRUE, {X}),
     Pkg(File([P1Base EXCEPT !.devDependencies = (DEV :> V2) @@ (X :> V1)], TRUE),
         TRUE, {X, PATH}),
     Pkg(File(P1Base, TRUE), TRUE, {X, DEV, <<".", ".", "/", "u">>}),
     Pkg(File([P1Base EXCEPT !.devDependencies = (DEV :> V1) @@ (X :> V1)], TRUE),
         TRUE, {PATH}) >>

P2Base == Manifest(AE, Ver1, (ES6 :> V1) @@ (X :> V1), <<>>)
P2Opts ==
  << Pkg(File(P2Base, TRUE), TRUE, {X}),
     Pkg(NoFile, FALSE, {}),
     Pkg(File([P2Base EXCEPT !.dependencies = (ES6 :> V2) @@ (X :> V2)], TRUE),
         TRUE, {X}),
     Pkg(File([P2Base EXCEPT !.dependencies = (X :> V1)], TRUE), TRUE, {}),
     Pkg(File([P2Base EXCEPT !.dependencies = (ES6 :> V1)], TRUE), TRUE,
         {X, ES6, <<"x", "/", "s">>}),
     Pkg(File([P2Base EXCEPT !.devDependencies = (DEV :> V2)], TRUE), TRUE, {X}) >>

ExBase == Manifest(EX, Ver1, (AE :> V1), <<>>)
ExOpts ==
  << Pkg(File(ExBase, TRUE), TRUE, {AE \o <<"/", "l">>}),
     Pkg(NoFile, FALSE, {}),
     Pkg(File([ExBase EXCEPT !.dependencies = <<>>], TRUE), TRUE,
         {AE \o <<"/", "l">>}),
     Pkg(File([ExBase EXCEPT !.devDependencies = (DEV :> V2)], TRUE), TRUE,
         {AE \o <<"/", "l">>}),
     Pkg(File([ExBase EXCEPT !.name = TOP, !.dependencies = <<>>], TRUE), TRUE,
         {AE \o <<"/", "l", "/", "m">>}) >>

AllBase == Manifest(ALL, Ver1, (BU :> V1) @@ (AE :> V1), <<>>)
AllOpts ==
  << File(AllBase, TRUE),
     File([AllBase EXCEPT !.dependencies = <<>>], TRUE),
     File([AllBase EXCEPT !.dependencies = (BU :> V1)], TRUE),
     File([AllBase EXCEPT !.dependencies = (BU :> V1) @@ (AE :> V1) @@ (X :> V1)],
          TRUE),
     File([AllBase EXCEPT !.dependencies = (BU :> V2) @@ (AE :> V1)], TRUE),
     File(AllBase, FALSE),
     File([AllBase EXCEPT !.dependencies = (AP :> V1) @@ (AE :> V1)], TRUE) >>

IndexOpts ==
  << GenIndex(Header, <<BU, AE>>),
     <<>>,
     Join(Header, <<"\n">>),
     GenIndex(Header, <<AE>>),
     GenIndex(<<>>, <<BU, AE>>),
     GenIndex(<<Comment, ImportLine(X), <<>>>>, <<BU, AE>>),
     GenIndex(Header, <<AE, BU>>),
     NoIndex >>

RootBase == Manifest(<<>>, Ver1, <<>>, (DEV :> V1))
RootOpts ==
  << File(RootBase, TRUE),
     File([RootBase EXCEPT !.devDependencies = <<>>], TRUE),
     File([RootBase EXCEPT !.devDependencies = (DEV :> V2)], TRUE),
     File(RootBase, FALSE),
     File([RootBase EXCEPT !.devDependencies = (DEV :> V1) @@ (X :> V1)], TRUE) >>

\* The parts, and how many values each has.
Parts == {"lerna", "lookup", "p1", "p2", "ex", "all", "index", "root"}
NOpts(part) ==
  CASE part = "lerna" -> Len(LernaOpts) [] part = "lookup" -> Len(LookupOpts)
    [] part = "p1" -> Len(P1Opts) [] part = "p2" -> Len(P2Opts)
    [] part = "ex" -> Len(ExOpts) [] part = "all" -> Len(AllOpts)
    [] part = "index" -> Len(IndexOpts) [] part = "root" -> Len(RootOpts)

\* At most MaxVary parts of a starting tree differ from the reference tree.
MaxVary == 3

Tree(sel) ==
  LET p1 == P1Opts[sel["p1"]]
      p2 == P2Opts[sel["p2"]]
      ex == ExOpts[sel["ex"]]
  IN  [lerna  |-> LernaOpts[sel["lerna"]],
       lookup |-> LookupOpts[sel["lookup"]],
       src    |-> [l \in Locs |->
                     CASE l = "packages/p1" -> p1.src
                       [] l = "packages/p2" -> p2.src
                       [] l = "examples/e" -> ex.src
                       [] OTHER -> [files |-> TRUE, imports |-> {}]],
       disk   |-> [pkg   |-> [l \in Locs |->
                                CASE l = "packages/p1" -> p1.file
                                  [] l = "packages/p2" -> p2.file
                                  [] l = "examples/e" -> ex.file
                                  [] OTHER -> AllOpts[sel["all"]]],
                   root  |-> RootOpts[sel["root"]],
                   index |-> IndexOpts[sel["index"]]]]

Init ==
  \E S \in {T \in SUBSET Parts : Cardinality(T) <= MaxVary} :
    \E alt \in {a \in [S -> 2..10] : \A part \in S : a[part] <= NOpts(part)} :
         /\ LET sel == [part \in Parts |-> IF part \in S THEN alt[part] ELSE 1]
                t   == Tree(sel)
            IN  /\ lerna = t.lerna
                /\ lookup = t.lookup
                /\ src = t.src
                /\ disk = t.disk
                /\ start = t.disk
  /\ pc = "load"
  /\ run = 1
  /\ pkgData = <<>> /\ pkgOrder = <<>> /\ pkgPaths = <<>> /\ pkgNames = <<>>
  /\ seenDeps = <<>> /\ todo = <<>> /\ messages = <<>> /\ output = "none"
  /\ calls = <<>> /\ wrote = {} /\ visited = <<>> /\ past = <<>>

Spec == Init /\ [][Next]_vars

----------------------------------------------------------------------------
(* Properties of the pass *)

\* The manifest of package p as it is on disk, and as it was when the run
\* started.
OnDisk(p)  == disk.pkg[pkgPaths[p]].data
AtStart(p) == start.pkg[pkgPaths[p]].data

\* The packages whose ensurePackage call returned in this run.
Visited == DOMAIN visited

\* The number of import declarations of index.ts that name q.
IndexRefs(q) ==
  LET ls == Split(disk.index, "\n")
  IN  Cardinality({i \in 1..Len(ls) : LineImport(ls[i]) = {q}})

\* The run before this one ran to its end.
AfterCompleteRun == run >= 2 /\ past[run - 1].pc = "done"

----------------------------------------------------------------------------
(* C1 *)

\* C1: after a complete run, every package (the all-packages package
\* included) that has a resolved name n as a key of dependencies or
\* devDependencies holds the cached version spec of n.
C1_CanonicalEverywhere ==
  pc = "done" =>
    \A n \in DOMAIN seenDeps : \A p \in DOMAIN pkgData :
      /\ n \in DOMAIN OnDisk(p).dependencies
           => OnDisk(p).dependencies[n] = seenDeps[n]
      /\ n \in DOMAIN OnDisk(p).devDependencies
           => OnDisk(p).devDependencies[n] = seenDeps[n]

(* C2 *)

\* C2: when the pass is run again on what a complete run left, ensurePackage
\* has no finding for any package, the all-packages package included.
C2_SecondRunNoFindings ==
  AfterCompleteRun => \A p \in Visited : visited[p].msgs = <<>>

(* C3 *)

\* C3: a complete run that follows a complete run reports nothing (no
\* package entry, no 'top' entry) and writes no file.
C3_SecondRunEmpty ==
  (AfterCompleteRun /\ pc = "done")
    => (messages = <<>> /\ wrote = {} /\ output = "verified")

(* C4 *)

\* The findings of package p in this run that are equal to m.
Findings(p, m) == Count(visited[p].msgs, m)

\* C4: for a validated package p with source files and every import
\* identity x other than '.' and '..': when x is not in the missing list of p
\* and was not a key of dependencies when the check of line 104 ran, there
\* is exactly one 'Missing dependency: x' finding (also when two specifiers
\* give x) and x is in dependencies, in memory and on disk, with the version
\* the cache holds for x;
\* when x is in the missing list of p there is no finding and x is not
\* added.
C4_MissingExactlyOnce ==
  \A p \in Visited :
    visited[p].obs.files =>
      \A x \in Range(visited[p].obs.names) \ {Dot, DotDot} :
        LET had   == x \in DOMAIN visited[p].obs.atCheck
            found == Findings(p, <<"Missing dependency: ", x>>)
            deps  == pkgData[p].dependencies
        IN  IF Listed(MISSING, p, x)
            THEN found = 0 /\ (x \in DOMAIN deps => had)
            ELSE IF ~had
              THEN /\ found = 1
                   /\ x \in DOMAIN deps
                   /\ deps[x] = seenDeps[x]
                   /\ OnDisk(p).dependencies = deps
            ELSE found = 0

\* A package imports x by two specifiers, did not depend on it and has one
\* finding for it, and imports a name of its missing list without a finding.
C4_Witness ==
  \E p \in Visited : \E x, y \in Range(visited[p].obs.names) :
    /\ Count(visited[p].obs.names, x) >= 2
    /\ x \notin DOMAIN visited[p].obs.atCheck
    /\ Findings(p, <<"Missing dependency: ", x>>) = 1
    /\ x \in DOMAIN OnDisk(p).dependencies
    /\ Listed(MISSING, p, y)
    /\ y \notin DOMAIN OnDisk(p).dependencies

(* C5 *)

\* C5: for a validated package p with source files, every key of
\* dependencies (those of the manifest on disk among them) that is not an
\* import identity and not in the unused list of p is removed with exactly
\* one 'Unused dependency' finding; a key of the unused list of p stays,
\* imported or not.
C5_UnusedRemovedOnce ==
  \A p \in Visited :
    visited[p].obs.files =>
      /\ DOMAIN AtStart(p).dependencies \subseteq DOMAIN visited[p].obs.atUnused
      /\ \A k \in DOMAIN visited[p].obs.atUnused :
           LET found == Findings(p, <<"Unused dependency: ", k>>)
               kept  == k \in DOMAIN OnDisk(p).dependencies
           IN  IF Listed(UNUSED, p, k) THEN kept /\ found = 0
               ELSE IF k \notin Range(visited[p].obs.names)
                 THEN ~kept /\ found = 1
               ELSE kept /\ found = 0

\* One package lost a key it does not import, and one kept a key of its
\* unused list that it does not import.
C5_Witness ==
  /\ \E p \in Visited : \E k \in DOMAIN AtStart(p).dependencies :
       /\ visited[p].obs.files
       /\ k \notin DOMAIN OnDisk(p).dependencies
       /\ Findings(p, <<"Unused dependency: ", k>>) = 1
  /\ \E p \in Visited : \E k \in DOMAIN AtStart(p).dependencies :
       /\ Listed(UNUSED, p, k)
       /\ k \notin Range(visited[p].obs.names)
       /\ k \in DOMAIN OnDisk(p).dependencies

(* C6 *)

\* C6: once ensureAllPackages has run, the all-packages manifest depends on
\* every other loaded package and index.ts imports each exactly once.
C6_AggregatorComplete ==
  ALL \in Visited =>
    \A q \in (DOMAIN pkgData) \ {ALL} :
      /\ q \in DOMAIN OnDisk(ALL).dependencies
      /\ IndexRefs(q) = 1

(* C7 *)

\* C7: after a complete run the root manifest has every devDependency of
\* every package, with the version spec the package holds.
C7_RootCoversDevDeps ==
  pc = "done" =>
    \A p \in DOMAIN pkgData : \A d \in DOMAIN OnDisk(p).devDependencies :
      /\ d \in DOMAIN disk.root.data.devDependencies
      /\ disk.root.data.devDependencies[d] = OnDisk(p).devDependencies[d]

(* C8 *)

\* The names of the 'Missing dependency' findings of package p.
MissingFound(p) ==
  {m[2] : m \in {f \in Range(visited[p].msgs) : f[1] = "Missing dependency: "}}

\* C8: within a run getDependency is called at most once for a name,
\* whichever package and whichever of the three sites asks; every cached
\* name was asked for once and holds the answer; and while the run lasts an
\* entry of the cache is neither changed nor removed.
C8_LookupOncePerName ==
  /\ [](/\ \A n \in DOMAIN calls : calls[n] = 1
        /\ \A n \in DOMAIN seenDeps :
             n \in DOMAIN calls /\ seenDeps[n] = getDependency(n))
  /\ [][run' = run =>
          \A n \in DOMAIN seenDeps :
            n \in DOMAIN seenDeps' /\ seenDeps'[n] = seenDeps[n]]_vars

\* One name, asked for once, was a key of dependencies of one package, a
\* key of devDependencies of a second and a missing dependency of a third.
C8_Witness ==
  \E n \in DOMAIN calls : \E p, q, r \in Visited :
    /\ calls[n] = 1
    /\ n \in DOMAIN AtStart(p).dependencies
    /\ n \in DOMAIN AtStart(q).devDependencies
    /\ n \in MissingFound(r)

(* C9 *)

\* Whether the run stopped in package f because getDependency threw.
AbortedIn(f) == pc = "aborted" /\ f = Head(todo)

\* The packages the loop of lines 278-283 had not reached.
Later == {todo[i] : i \in 2..Len(todo)}

\* C9 as stated: when getDependency cannot resolve a name the run stops,
\* the manifest of the failing package is not written, no later package is
\* validated or written and nothing is reported.
C9_AbortWritesNothingOfFailing ==
  pc = "aborted" =>
    /\ pkgPaths[Head(todo)] \notin wrote
    /\ \A p \in Later : p \notin Visited /\ pkgPaths[p] \notin wrote
    /\ output = "none"

\* C9, amended: no package is validated to the end with a name that cannot
\* be resolved among its keys; when getDependency throws the run stops, no
\* later package is validated or written and nothing is reported; the
\* manifest of the failing package is not written, unless it is the
\* all-packages package failing at a missing dependency, whose manifest and
\* index ensureAllPackages may have written before.
C9_AbortStopsTheRun ==
  /\ \A p \in Visited :
       \A n \in DOMAIN AtStart(p).dependencies
                \cup DOMAIN AtStart(p).devDependencies \cup MissingFound(p) :
         getDependency(n) # Unresolved
  /\ pc = "aborted" =>
       /\ Head(todo) \notin Visited
       /\ \E n \in DOMAIN calls : getDependency(n) = Unresolved
       /\ \A p \in Later : p \notin Visited /\ pkgPaths[p] \notin wrote
       /\ IndexFile \in wrote => ALL \in Visited \cup {Head(todo)}
       /\ output = "none"
       /\ pkgPaths[Head(todo)] \in wrote =>
            /\ Head(todo) = ALL
            /\ \A n \in DOMAIN AtStart(ALL).dependencies
                        \cup DOMAIN AtStart(ALL).devDependencies :
                 getDependency(n) # Unresolved

\* The run stopped in the all-packages package, with packages left, after
\* ensureAllPackages wrote its manifest.
C9_Witness ==
  /\ AbortedIn(ALL)
  /\ Later # {}
  /\ allPackagesPath \in wrote
  /\ output = "none"

(* C10 *)

\* C10: when every location of packages/* is among the lerna locations and
\* there is an index.ts, a location without a manifest is passed over: no call throws a TypeError
\* and the location gives no package.
C10_MissingManifestSkipped ==
  (/\ \A l \in Range(localPackages) : l \in Range(LernaPaths(lerna))
   /\ start.index # NoIndex) =>
    /\ pc # "crashed"
    /\ \A p \in DOMAIN pkgPaths : start.pkg[pkgPaths[p]].exists

(* C11 *)

\* C11: a run that completed reports failure exactly when the findings map
\* is not empty and success otherwise; the map has an entry for a package
\* exactly when ensurePackage returned findings for it, and an entry 'top'
\* exactly when the root manifest was written.
C11_ReportMatchesFindings ==
  pc = "done" =>
    /\ output = (IF DOMAIN messages # {} THEN "report" ELSE "verified")
    /\ \A p \in DOMAIN pkgData :
         p \in DOMAIN messages <=> visited[p].msgs # <<>>
    /\ TOP \in DOMAIN messages <=> RootFile \in wrote
    /\ \A p \in DOMAIN pkgData :
         p \in DOMAIN messages => messages[p] = visited[p].msgs

(* C12 *)

\* The import specifiers that ensurePackage read for package p.
Raw(p) ==
  IF p = ALL THEN getImports(disk.index) ELSE src[pkgPaths[p]].imports

\* Whether id is the part of specifier s before its n-th '/': a prefix of s
\* with n - 1 slashes, followed by a '/' or by the end of s.
UpToSlash(id, s, n) ==
  /\ Len(id) <= Len(s)
  /\ SubSeq(s, 1, Len(id)) = id
  /\ Count(id, "/") = n - 1
  /\ Len(id) = Len(s) \/ s[Len(id) + 1] = "/"

\* Whether s is a relative specifier.
Relative(s) ==
  \/ Len(s) >= 2 /\ SubSeq(s, 1, 2) = <<".", "/">>
  \/ Len(s) >= 3 /\ SubSeq(s, 1, 3) = <<".", ".", "/">>

\* Every import specifier of the working tree.
Specifiers ==
  getImports(disk.index) \cup UNION {src[l].imports : l \in Locs}

\* C12: '@scope/name/sub/path' has the identity '@scope/name' and
\* 'name/sub/path' the identity 'name'; the identities of the specifiers of
\* a package are the names ensurePackage checks; a relative specifier gives
\* no package identity: it has no 'Missing dependency' finding and adds no
\* key to dependencies.
C12_IdentityOfSpecifier ==
  /\ \A s \in Specifiers :
       IF Relative(s) THEN Identity(s) \in {Dot, DotDot}
       ELSE IF s[1] = "@" /\ Count(s, "/") >= 1
         THEN UpToSlash(Identity(s), s, 2)
       ELSE UpToSlash(Identity(s), s, 1)
  /\ \A p \in Visited :
       visited[p].obs.files =>
         /\ Range(visited[p].obs.names) = {Identity(s) : s \in Raw(p)}
         /\ \A s \in Raw(p) :
              Relative(s) =>
                /\ Findings(p, <<"Missing dependency: ", Identity(s)>>) = 0
                /\ DOMAIN OnDisk(p).dependencies \cap {Dot, DotDot, s} = {}

\* Packages were validated that import '@j/ae/l/m', 'x/s/t' and './u'.
C12_Witness ==
  /\ \E p \in Visited : \E s \in Raw(p) :
       s[1] = "@" /\ Count(s, "/") = 3 /\ Count(Identity(s), "/") = 1
  /\ \E p \in Visited : \E s \in Raw(p) :
       s[1] = "x" /\ Count(s, "/") = 2 /\ Identity(s) = X
  /\ \E p \in Visited : \E s \in Raw(p) :
       Relative(s) /\ visited[p].msgs # <<>>

(* C13 *)

\* Whether package p has no source file.  The source of the all-packages
\* package is its index.ts.
NoSources(p) ==
  IF p = ALL THEN start.index = NoIndex ELSE ~src[pkgPaths[p]].files

\* Whether the run ended in an error thrown inside ensurePackage(p).
CrashedIn(p) == pc = "crashed" /\ todo # <<>> /\ Head(todo) = p

\* What C13 says of a validated package p without source files: only
\* normalization and persist.
OnlyNormalized(p) ==
  /\ ~visited[p].obs.synced
  /\ Range(visited[p].msgs) \subseteq {<<"Package data changed">>}
  /\ DOMAIN OnDisk(p).dependencies = DOMAIN AtStart(p).dependencies
  /\ DOMAIN OnDisk(p).devDependencies = DOMAIN AtStart(p).devDependencies
  /\ \A n \in DOMAIN OnDisk(p).dependencies :
       OnDisk(p).dependencies[n] = seenDeps[n]
  /\ \A n \in DOMAIN OnDisk(p).devDependencies :
       OnDisk(p).devDependencies[n] = seenDeps[n]

\* C13: for a package without source files, whichever it is, ensurePackage
\* does not call ensureAllPackages (so it cannot fail in it), has no missing
\* or unused finding and leaves the keys of both maps as they were.
C13_NoSourcesOnlyNormalize ==
  \A p \in DOMAIN pkgData :
    NoSources(p) =>
      /\ ~CrashedIn(p)
      /\ p \in Visited => OnlyNormalized(p)

(* C14 *)

\* Whether the manifest of package p was written in this run, and whether
\* ensurePackage returned a 'Package data changed' finding for p.
Written(p)  == pkgPaths[p] \in wrote
Reported(p) == p \in Visited /\ Findings(p, <<"Package data changed">>) >= 1

\* C14 as stated: the manifest of a package is written exactly when its
\* canonical text differs from the text on disk, and 'Package data changed'
\* is a finding of the package exactly when its manifest was written in
\* this run.
C14_WrittenIffReported ==
  \A p \in DOMAIN pkgData :
    /\ Written(p) <=> Reported(p)
    /\ p \in Visited =>
         (Written(p) <=> Serialize(pkgData[p]) # start.pkg[pkgPaths[p]])
    /\ ~Written(p) => disk.pkg[pkgPaths[p]] = start.pkg[pkgPaths[p]]

\* C14, amended: the same for every package whose ensurePackage call
\* returned; a manifest that is not written is left as it was; and the only
\* manifest written without a finding is that of the all-packages package,
\* written by ensureAllPackages in a call that getDependency then ended.
C14_WrittenIffChanged ==
  \A p \in DOMAIN pkgData :
    /\ p \in Visited =>
         /\ Written(p) <=> Reported(p)
         /\ Written(p) <=> Serialize(pkgData[p]) # start.pkg[pkgPaths[p]]
         /\ disk.pkg[pkgPaths[p]].data = pkgData[p]
         /\ Written(p) => disk.pkg[pkgPaths[p]].canonical
    /\ ~Written(p) => disk.pkg[pkgPaths[p]] = start.pkg[pkgPaths[p]]
    /\ (Written(p) /\ p \notin Visited) => (p = ALL /\ AbortedIn(ALL))

\* One manifest whose text was not canonical was written though its data
\* did not change, one was written because its data changed, and one was
\* left alone, without the finding.
C14_Witness ==
  \E p, q, r \in Visited :
    /\ Written(p) /\ Reported(p)
    /\ ~start.pkg[pkgPaths[p]].canonical /\ AtStart(p) = pkgData[p]
    /\ Written(q) /\ Reported(q) /\ AtStart(q) # pkgData[q]
    /\ ~Written(r) /\ ~Reported(r)

(* C15 *)

\* C15: the loop of lines 278-283 takes the packages in ascending order of
\* name, whatever the order of the locations: the names it has yet to
\* visit are in ascending order.
C15_AscendingByName ==
  pc = "packages" =>
    \A i, j \in 1..Len(todo) : i < j => StrLess(todo[i], todo[j])

(* C16 *)

\* The packages ensureAllPackages goes through: those of packages/*, but
\* for the all-packages package itself.
Ensured ==
  {Get(pkgNames, l) : l \in Range(localPackages) \ {allPackagesPath}}

\* C16: in the validation of the all-packages package ensureAllPackages
\* runs before the imports are collected, so the import lines it writes
\* are among the names that the missing and unused checks see: a package
\* that ensureAllPackages went through is a dependency when the checks
\* start, is among the import names, has no missing or unused finding and
\* is a dependency in the manifest the run leaves.
C16_SyncBeforeImports ==
  ALL \in Visited =>
    /\ visited[ALL].obs.synced
    /\ \A q \in Ensured :
         /\ q \in DOMAIN visited[ALL].obs.atCheck
         /\ q \in Range(visited[ALL].obs.names)
         /\ Findings(ALL, <<"Missing dependency: ", q>>) = 0
         /\ Findings(ALL, <<"Unused dependency: ", q>>) = 0
         /\ q \in DOMAIN OnDisk(ALL).dependencies

\* The all-packages package was validated, and a package that was neither
\* a dependency nor imported by index.ts when the run started is both.
C16_Witness ==
  /\ ALL \in Visited
  /\ \E q \in Ensured :
       /\ q \notin DOMAIN AtStart(ALL).dependencies
       /\ q \notin getImports(start.index)
       /\ q \in DOMAIN OnDisk(ALL).dependencies
       /\ q \in getImports(disk.index)
       /\ Findings(ALL, <<"Updated: ", q>>) = 1

(* C17 *)

\* C17: ensureAllPackages has the finding 'Updated: q' for a package q it
\* goes through exactly when q was not among the dependencies of the
\* all-packages manifest (and is then given '^' + its version) or the
\* index.ts it read had no import of q, also when the name of q is the
\* beginning of another name that index.ts imports.
C17_UpdatedWhenUnreferenced ==
  ALL \in Visited =>
    \A q \in Ensured :
      /\ Findings(ALL, <<"Updated: ", q>>) >= 1
           <=> \/ q \notin DOMAIN AtStart(ALL).dependencies
               \/ q \notin getImports(start.index)
      /\ q \notin DOMAIN AtStart(ALL).dependencies =>
           visited[ALL].obs.atCheck[q] = <<"^">> \o pkgData[q].version

(* C18 *)

\* The names of the packages ensureAllPackages goes through, in its order.
EnsuredSeq ==
  LET ls == SelectSeq(localPackages, LAMBDA l : l # allPackagesPath)
  IN  [i \in 1..Len(ls) |-> Get(pkgNames, ls[i])]

\* Whether an earlier run of the script validated the all-packages package
\* to the end, so that the index.ts this run started with is one that
\* ensureAllPackages generated or found equal to what it generates.
IndexWasGenerated == \E k \in 1..Len(past) : ALL \in past[k].visited

\* C18: the index ensureAllPackages leaves is the first three lines of the
\* one it read followed by one import line per package, in order; it is
\* written, with the finding 'Index changed', only when that text differs
\* from the text on disk; and an index that ensureAllPackages generated is
\* regenerated unchanged.
C18_IndexRegenerated ==
  ALL \in Visited =>
    /\ disk.index = GenIndex(Slice0(Split(start.index, "\n"), 3), EnsuredSeq)
    /\ IndexFile \in wrote <=> disk.index # start.index
    /\ IndexFile \in wrote <=> Findings(ALL, <<"Index changed">>) = 1
    /\ IndexWasGenerated => IndexFile \notin wrote

(* C19 *)

\* C19: after ensurePackage returned for a package p with source files,
\* every key of its dependencies is an import identity or is in the unused
\* list of p; every import identity but '.' and '..' that is not in the
\* missing list of p is a key; and a key that is in the missing list of p,
\* is not imported and is not in the unused list of p was removed with an
\* 'Unused dependency' finding.
C19_KeysMatchImports ==
  \A p \in Visited :
    visited[p].obs.files =>
      /\ \A k \in DOMAIN OnDisk(p).dependencies :
           k \in Range(visited[p].obs.names) \/ Listed(UNUSED, p, k)
      /\ \A x \in Range(visited[p].obs.names) \ {Dot, DotDot} :
           ~Listed(MISSING, p, x) => x \in DOMAIN OnDisk(p).dependencies
      /\ \A k \in DOMAIN AtStart(p).dependencies :
           (/\ Listed(MISSING, p, k)
            /\ k \notin Range(visited[p].obs.names)
            /\ ~Listed(UNUSED, p, k))
             => /\ k \notin DOMAIN OnDisk(p).dependencies
                /\ Findings(p, <<"Unused dependency: ", k>>) = 1

\* A package lost a key of its missing list that it does not import, and
\* kept a key that it imports.
C19_Witness ==
  \E p \in Visited : \E k, x \in DOMAIN AtStart(p).dependencies :
    /\ visited[p].obs.files
    /\ Listed(MISSING, p, k)
    /\ k \notin Range(visited[p].obs.names)
    /\ k \notin DOMAIN OnDisk(p).dependencies
    /\ Findings(p, <<"Unused dependency: ", k>>) = 1
    /\ x \in Range(visited[p].obs.names)
    /\ x \in DOMAIN OnDisk(p).dependencies

(* C20 *)

\* C20: ensurePackage leaves the keys of devDependencies as they were and
\* gives each the cached version; the missing and unused checks do not look
\* at devDependencies: an import identity that only devDependencies declares
\* has a 'Missing dependency' finding and is added to dependencies, with the
\* version devDependencies holds for it, and a key of dependencies that is
\* not imported is removed though devDependencies declares it too.
C20_DevDependenciesNotConsulted ==
  \A p \in Visited :
    /\ DOMAIN OnDisk(p).devDependencies = DOMAIN AtStart(p).devDependencies
    /\ \A d \in DOMAIN OnDisk(p).devDependencies :
         OnDisk(p).devDependencies[d] = seenDeps[d]
    /\ visited[p].obs.files =>
         /\ \A x \in Range(visited[p].obs.names) \ {Dot, DotDot} :
              (/\ x \in DOMAIN AtStart(p).devDependencies
               /\ x \notin DOMAIN visited[p].obs.atCheck
               /\ ~Listed(MISSING, p, x))
                => /\ Findings(p, <<"Missing dependency: ", x>>) = 1
                   /\ x \in DOMAIN OnDisk(p).dependencies
                   /\ OnDisk(p).dependencies[x] = OnDisk(p).devDependencies[x]
         /\ \A k \in DOMAIN visited[p].obs.atUnused :
              (/\ k \in DOMAIN AtStart(p).devDependencies
               /\ k \notin Range(visited[p].obs.names)
               /\ ~Listed(UNUSED, p, k))
                => k \notin DOMAIN OnDisk(p).dependencies

\* A package imports a name that only its devDependencies declared: the
\* name was reported missing and is now in both maps.
C20_Witness ==
  \E p \in Visited : \E x \in Range(visited[p].obs.names) :
    /\ visited[p].obs.files
    /\ x \in DOMAIN AtStart(p).devDependencies
    /\ x \notin DOMAIN AtStart(p).dependencies
    /\ Findings(p, <<"Missing dependency: ", x>>) = 1
    /\ x \in DOMAIN OnDisk(p).dependencies
    /\ x \in DOMAIN OnDisk(p).devDependencies
    /\ OnDisk(p).dependencies[x] = OnDisk(p).devDependencies[x]

====
